---- MODULE Spec2Model ----
(***************************************************************************)
(* Model of the audio ingestion pipeline of app.py: process_audio and the  *)
(* two tables it writes (audio_text, submission_meta) through a            *)
(* SQLAlchemy session on a PostgreSQL database (READ COMMITTED, unique     *)
(* index on audio_text.audio_hash).                                        *)
(*                                                                         *)
(* Text values are sequences of one-character strings, so that strip,      *)
(* split, lower and startswith are computed and not assumed.  Python's     *)
(* None is the record None; Some(s) is a value that is present.            *)
(*                                                                         *)
(* A sample buffer is modelled by its dtype, its number of samples and the *)
(* value all its samples have; its WAV/PCM_16 encoding by the sample rate, *)
(* the frame count and the 16-bit sample value, with the length libsndfile *)
(* writes (44 header bytes + 2 bytes per sample).  sha256 is modelled as   *)
(* collision free: the digest is the tuple of what the bytes are made of.  *)
(***************************************************************************)
EXTENDS Integers, Sequences, FiniteSets, TLC

\* Number of concurrent process_audio calls (Gradio queue workers).
NumCalls == 2

Procs == 1..NumCalls

---------------------------------------------------------------------------
(* Optional values and text                                                *)

None == [some |-> FALSE, v |-> <<>>]

Some(s) == [some |-> TRUE, v |-> s]

\* Python truthiness of an optional string: None and "" are falsy.
Truthy(o) == o.some /\ o.v # <<>>

Whitespace == {" ", "\t", "\n"}

RECURSIVE LStrip(_)
LStrip(s) == IF s # <<>> /\ Head(s) \in Whitespace THEN LStrip(Tail(s)) ELSE s

RECURSIVE RStrip(_)
RStrip(s) ==
    IF s # <<>> /\ s[Len(s)] \in Whitespace
    THEN RStrip(SubSeq(s, 1, Len(s) - 1))
    ELSE s

\* str.strip()
Strip(s) == RStrip(LStrip(s))

\* Index of the first occurrence of character c in s, 0 when absent.
RECURSIVE FindFrom(_, _, _)
FindFrom(s, c, i) ==
    IF i > Len(s) THEN 0
    ELSE IF s[i] = c THEN i
    ELSE FindFrom(s, c, i + 1)

Find(s, c) == FindFrom(s, c, 1)

\* s.split(c)[0] and s.split(c, 1)[0]
SplitFirst(s, c) == IF Find(s, c) = 0 THEN s ELSE SubSeq(s, 1, Find(s, c) - 1)

\* s.split(c, 1): the part after the first c; absent when s has no c
\* (then [1] raises IndexError).
SplitRest(s, c) ==
    IF Find(s, c) = 0 THEN None ELSE Some(SubSeq(s, Find(s, c) + 1, Len(s)))

UpperChars == <<"A", "B", "C", "I", "S">>

LowerChars == <<"a", "b", "c", "i", "s">>

LowerChar(c) ==
    IF \E i \in 1..Len(UpperChars) : UpperChars[i] = c
    THEN LowerChars[CHOOSE i \in 1..Len(UpperChars) : UpperChars[i] = c]
    ELSE c

\* str.lower()
Lower(s) == [i \in 1..Len(s) |-> LowerChar(s[i])]

\* str.startswith(prefix)
StartsWith(s, prefix) ==
    Len(s) >= Len(prefix) /\ SubSeq(s, 1, Len(prefix)) = prefix

---------------------------------------------------------------------------
(* base64.b64decode(...).decode("utf-8")                                   *)

B64Alphabet ==
    << "A", "B", "C", "D", "E", "F", "G", "H", "I", "J", "K", "L", "M",
       "N", "O", "P", "Q", "R", "S", "T", "U", "V", "W", "X", "Y", "Z",
       "a", "b", "c", "d", "e", "f", "g", "h", "i", "j", "k", "l", "m",
       "n", "o", "p", "q", "r", "s", "t", "u", "v", "w", "x", "y", "z",
       "0", "1", "2", "3", "4", "5", "6", "7", "8", "9", "+", "/" >>

\* The printable ASCII characters, code 32 first (code 96 by its name).
AsciiPrintable ==
    << " ", "!", "\"", "#", "$", "%", "&", "'", "(", ")", "*", "+", ",",
       "-", ".", "/", "0", "1", "2", "3", "4", "5", "6", "7", "8", "9",
       ":", ";", "<", "=", ">", "?", "@", "A", "B", "C", "D", "E", "F",
       "G", "H", "I", "J", "K", "L", "M", "N", "O", "P", "Q", "R", "S",
       "T", "U", "V", "W", "X", "Y", "Z", "[", "\\", "]", "^", "_", "GRAVE",
       "a", "b", "c", "d", "e", "f", "g", "h", "i", "j", "k", "l", "m",
       "n", "o", "p", "q", "r", "s", "t", "u", "v", "w", "x", "y", "z",
       "{", "|", "}", "~" >>

IsB64Char(c) == \E i \in 1..64 : B64Alphabet[i] = c

\* The 6-bit value of a character of the alphabet.
B64Value(c) == (CHOOSE i \in 1..64 : B64Alphabet[i] = c) - 1

\* b64decode without validate discards the characters outside the alphabet.
B64Data(s) == SelectSeq(s, IsB64Char)

B64Pads(s) == Len(SelectSeq(s, LAMBDA c : c = "="))

\* The bytes of the complete 4-character groups of d, then of the rest.
RECURSIVE B64Bytes(_)
B64Bytes(d) ==
    IF Len(d) >= 4
    THEN LET n == B64Value(d[1]) * 262144 + B64Value(d[2]) * 4096
                  + B64Value(d[3]) * 64 + B64Value(d[4])
         IN  << n \div 65536, (n \div 256) % 256, n % 256 >>
                 \o B64Bytes(SubSeq(d, 5, Len(d)))
    ELSE IF Len(d) = 3
    THEN LET n == (B64Value(d[1]) * 4096 + B64Value(d[2]) * 64
                   + B64Value(d[3])) \div 4
         IN  << n \div 256, n % 256 >>
    ELSE IF Len(d) = 2
    THEN << (B64Value(d[1]) * 64 + B64Value(d[2])) \div 16 >>
    ELSE << >>

\* binascii raises on a dangling group that the padding does not complete.
B64PaddingOk(s) ==
    LET r == Len(B64Data(s)) % 4
    IN  \/ r = 0
        \/ r = 2 /\ B64Pads(s) >= 2
        \/ r = 3 /\ B64Pads(s) >= 1

\* bytes.decode("utf-8") of bytes that are ASCII; a byte above 127 that
\* starts no valid multi-byte sequence raises UnicodeDecodeError.
Utf8Ok(bytes) == \A i \in 1..Len(bytes) : bytes[i] >= 32 /\ bytes[i] <= 126

Utf8Decode(bytes) == [i \in 1..Len(bytes) |-> AsciiPrintable[bytes[i] - 31]]

\* A decoder that drops what it cannot decode instead of raising.
B64DecodeText_IgnoreErrors(s) ==
    Some(Utf8Decode(SelectSeq(B64Bytes(B64Data(s)),
                              LAMBDA b : b >= 32 /\ b <= 126)))

\* b64decode(s).decode("utf-8"): the text, or None where Python raises.
B64DecodeText(s) ==
    IF B64PaddingOk(s) /\ Utf8Ok(B64Bytes(B64Data(s)))
    THEN Some(Utf8Decode(B64Bytes(B64Data(s))))
    ELSE None

---------------------------------------------------------------------------
(* The request context (gr.Request)                                        *)

\* A request: present is FALSE for request = None; has_headers and
\* has_client say whether the attributes exist; the header values and the
\* peer host are optional texts.
Request(present, has_headers, xff, ua, auth, has_client, host) ==
    [present |-> present, has_headers |-> has_headers, xff |-> xff,
     ua |-> ua, auth |-> auth, has_client |-> has_client, host |-> host]

\* req.headers.get(name) if hasattr(req, "headers") else None
Header(req, name) ==
    IF req.present /\ req.has_headers
    THEN CASE name = "x-forwarded-for" -> req.xff
           [] name = "user-agent" -> req.ua
           [] name = "authorization" -> req.auth
    ELSE None

\* The peer address preferred to the forwarded-for header.
_client_ip_PeerFirst(req) ==
    IF ~req.present THEN None
    ELSE IF req.has_client /\ Truthy(req.host) THEN req.host
    ELSE IF Truthy(Header(req, "x-forwarded-for"))
    THEN Some(Strip(SplitFirst(Header(req, "x-forwarded-for").v, ",")))
    ELSE None

_client_ip(req) ==
    IF ~req.present THEN None
    ELSE IF Truthy(Header(req, "x-forwarded-for"))
    THEN Some(Strip(SplitFirst(Header(req, "x-forwarded-for").v, ",")))
    ELSE IF req.has_client /\ Truthy(req.host) THEN req.host
    ELSE None

BasicPrefix == <<"b", "a", "s", "i", "c", " ">>

_username_from_request(req) ==
    LET auth == Header(req, "authorization")
    IN  IF Truthy(auth) /\ StartsWith(Lower(auth.v), BasicPrefix)
        THEN LET text == B64DecodeText(SplitRest(auth.v, " ").v)
             IN  IF text.some THEN Some(SplitFirst(text.v, ":")) ELSE None
        ELSE None

\* request.headers.get("user-agent") if hasattr(request, "headers") else None
_user_agent(req) == Header(req, "user-agent")

---------------------------------------------------------------------------
(* The audio argument and its canonical encoding                           *)

MAX_BYTES == 10485760

\* Length of the RIFF/WAVE header libsndfile writes for PCM_16.
WavHeaderBytes == 44

\* subtype="PCM_16"
BytesPerSample == 2

\* Largest 16-bit sample.
Pcm16Max == 32767

\* The audio argument of process_audio.  kind "None" is audio = None;
\* otherwise audio is the pair (sr, audio_np), where audio_np is an
\* np.ndarray (kind "ndarray") or some other object (kind "other"); dtype,
\* size and val describe the array: size samples, each equal to val.
Audio(kind, sr, dtype, size, val) ==
    [kind |-> kind, sr |-> sr, dtype |-> dtype, size |-> size, val |-> val]

\* The dtypes soundfile writes.
SfDtypes == {"int16", "float64"}

\* A sample as PCM_16 stores it: int16 as it is, float scaled by 2^15 and
\* clipped.
Pcm16(dtype, val) ==
    IF dtype = "int16" THEN val
    ELSE IF val * 32768 > Pcm16Max THEN Pcm16Max
    ELSE val * 32768

\* The bytes of the WAV file, by what determines them.
Wav(rate, frames, pcm) == [rate |-> rate, frames |-> frames, pcm |-> pcm]

NoWav == Wav(0, 0, 0)

\* len(wav_bytes)
WavLen(w) == WavHeaderBytes + BytesPerSample * w.frames

\* sf.write(buf, audio_np, int(sr), format="WAV", subtype="PCM_16") raises
\* for a dtype it does not write and for a sample rate libsndfile refuses:
\* a negative rate always, rate 0 depending on the libsndfile build
\* (zero_ok).
SfWriteRaises(audio, zero_ok) ==
    \/ audio.dtype \notin SfDtypes
    \/ audio.sr < 0
    \/ audio.sr = 0 /\ ~zero_ok

SfWrite(audio) == Wav(audio.sr, audio.size, Pcm16(audio.dtype, audio.val))

\* The size check with the limit itself rejected.
TooLarge_Inclusive(w) == WavLen(w) >= MAX_BYTES

\* len(wav_bytes) > MAX_BYTES
TooLarge(w) == WavLen(w) > MAX_BYTES

\* hashlib.sha256(wav_bytes).hexdigest(), collision free.
Sha256(w) == <<"sha256", w.rate, w.frames, w.pcm>>

NoHash == <<"sha256", 0, 0, 0>>

---------------------------------------------------------------------------
(* process_audio up to the storage attempt (lines 68-86)                   *)

\* The title check without the strip.
TitleBlank_NoStrip(title) == ~Truthy(title)

\* not title or not title.strip()
TitleBlank(title) == ~Truthy(title) \/ Strip(title.v) = <<>>

\* (text.strip() or None) if text else None
StripOrNone(text) ==
    IF Truthy(text) /\ Strip(text.v) # <<>> THEN Some(Strip(text.v)) ELSE None

\* The fingerprint taken before the size check.
ProcessAudioSteps_HashFirst ==
    <<"Validate", "Normalize", "Fingerprint", "SizeCheck", "ExtractProvenance">>

\* The steps of process_audio before the session is opened, in the order
\* of the source lines.
ProcessAudioSteps ==
    <<"Validate", "Normalize", "SizeCheck", "Fingerprint", "ExtractProvenance">>

StepsUpTo(k) == SubSeq(ProcessAudioSteps, 1, k)

\* The local variables of a call.
Frame(title, wav_bytes, audio_hash, transcript, description, sr, ip, ua, user) ==
    [title |-> title, wav_bytes |-> wav_bytes, audio_hash |-> audio_hash,
     transcript |-> transcript, description |-> description, sr |-> sr,
     ip |-> ip, ua |-> ua, user |-> user]

NoFrame == Frame(None, NoWav, NoHash, None, None, 0, None, None, None)

MsgTitle == "Title is required."

MsgAudio == "Audio is required."

MsgInvalid == "Invalid audio input."

MsgTooLarge == "Audio file is too large. Please upload a file smaller than 10MB."

MsgDuplicate == "Duplicate submission detected for this audio."

MsgSaved == "Saved. Request from"

MsgError == "An error occurred while saving data:"

\* An exception that leaves process_audio.
Raised == "raised"

\* A return value: the message and what is formatted into it.
Ret(msg, detail) == [msg |-> msg, detail |-> detail]

NoRet == Ret("", <<>>)

\* The fingerprint taken from the encoded bytes and the title.
Locals_HashTitle(audio, title, transcript, description, request) ==
    Frame(Strip(title.v), SfWrite(audio),
          Sha256(SfWrite(audio)) \o <<Strip(title.v)>>,
          StripOrNone(transcript), StripOrNone(description), audio.sr,
          _client_ip(request), _user_agent(request),
          _username_from_request(request))

\* Lines 73-86: the locals of a call whose audio passed the checks.  The
\* fingerprint is taken from the encoded bytes alone.
Locals(audio, title, transcript, description, request) ==
    Frame(Strip(title.v), SfWrite(audio), Sha256(SfWrite(audio)),
          StripOrNone(transcript), StripOrNone(description), audio.sr,
          _client_ip(request), _user_agent(request),
          _username_from_request(request))

\* Lines 68-86: how the call leaves them (exit "return" with ret, exit
\* "raise", or exit "store" with the locals the storage attempt uses) and
\* the steps it took.
Prelude(audio, title, transcript, description, request, zero_ok) ==
    IF TitleBlank(title)
    THEN [exit |-> "return", ret |-> Ret(MsgTitle, <<>>),
          steps |-> StepsUpTo(1), frame |-> NoFrame]
    ELSE IF audio.kind = "None"
    THEN [exit |-> "return", ret |-> Ret(MsgAudio, <<>>),
          steps |-> StepsUpTo(1), frame |-> NoFrame]
    ELSE IF audio.kind # "ndarray" \/ audio.size = 0
    THEN [exit |-> "return", ret |-> Ret(MsgInvalid, <<>>),
          steps |-> StepsUpTo(1), frame |-> NoFrame]
    ELSE IF SfWriteRaises(audio, zero_ok)
    THEN [exit |-> "raise", ret |-> Ret(Raised, <<>>),
          steps |-> StepsUpTo(2), frame |-> NoFrame]
    ELSE IF TooLarge(SfWrite(audio))
    THEN [exit |-> "return", ret |-> Ret(MsgTooLarge, <<>>),
          steps |-> StepsUpTo(3), frame |-> NoFrame]
    ELSE [exit |-> "store", ret |-> NoRet,
          steps |-> StepsUpTo(5),
          frame |-> Locals(audio, title, transcript, description, request)]

---------------------------------------------------------------------------
(* The arguments the calls are made with                                   *)

\* The sample rate of the valid clips.
Rate == 16000

\* The number of samples whose encoding is exactly MAX_BYTES long.
FramesAtMax == (MAX_BYTES - WavHeaderBytes) \div BytesPerSample

\* The clips: absent, not an array, empty, of a dtype soundfile does not
\* write, with a negative rate, with rate 0 (and too large, so that the
\* call ends before the store whichever way libsndfile takes the rate), two
\* valid ones (the second exactly MAX_BYTES long when encoded) and one that
\* is too large.
AudioAbsent == Audio("None", 0, "int16", 0, 0)

AudioShort == Audio("ndarray", Rate, "int16", 1, 0)

AudioAtMax == Audio("ndarray", Rate, "int16", FramesAtMax, 0)

AudioOverMax == Audio("ndarray", Rate, "int16", FramesAtMax + 1, 0)

Audios ==
    { AudioAbsent,
      Audio("other", Rate, "int16", 1, 0),
      Audio("ndarray", Rate, "int16", 0, 0),
      Audio("ndarray", Rate, "object", 1, 0),
      Audio("ndarray", 0 - 1, "int16", 1, 0),
      Audio("ndarray", 0, "int16", FramesAtMax + 1, 0),
      AudioShort,
      AudioAtMax,
      AudioOverMax }

\* The titles a call is made with: missing, empty, whitespace, and two that
\* strip to different texts.
BlankTitles == { None, Some(<<>>), Some(<<" ">>) }

TitleA == Some(<<" ", "a">>)

TitleB == Some(<<"b">>)

Titles == BlankTitles \cup { TitleA, TitleB }

ReqNone == Request(FALSE, FALSE, None, None, None, FALSE, None)

ReqProxy ==
    Request(TRUE, TRUE, Some(<<"1", ",", " ", "2">>), Some(<<"U", "A">>),
            Some(<<"B", "a", "s", "i", "c", " ", "d", "T", "p", "w">>),
            TRUE, Some(<<"9">>))

\* A call's arguments.
Arguments(audio, title, transcript, description, request) ==
    [audio |-> audio, title |-> title, transcript |-> transcript,
     description |-> description, request |-> request]

\* The calls that are made: every blank title with an absent, a valid and a
\* too large clip; every clip under title "b" with a transcript, a
\* description and a proxied request; the short clip under title " a" with
\* a blank transcript, no description and no request.
CallArguments ==
    { Arguments(a, t, None, None, ReqNone) :
        a \in {AudioAbsent, AudioShort, AudioOverMax}, t \in BlankTitles }
    \cup { Arguments(a, TitleB, Some(<<"t", " ">>), Some(<<"d">>), ReqProxy) :
             a \in Audios }
    \cup { Arguments(AudioShort, TitleA, Some(<<" ">>), None, ReqNone) }

\* The arguments a call keeps to the end: audio, title and request.
Args(audio, title, request) ==
    [audio |-> audio, title |-> title, request |-> request]

NoArgs == Args(AudioAbsent, None, ReqNone)

\* Every call that is made with what lines 68-86 make of it, for a
\* libsndfile build that writes sample rate 0 or one that does not.
Calls(zero_ok) ==
    { [args |-> Args(c.audio, c.title, c.request),
       out |-> Prelude(c.audio, c.title, c.transcript, c.description,
                       c.request, zero_ok)] : c \in CallArguments }

CallsZeroOk == Calls(TRUE)

CallsZeroRefused == Calls(FALSE)

\* The forwarded-for headers of the request contexts: none, empty, a blank
\* first entry, two entries.
XffHeaders ==
    { None, Some(<<>>), Some(<<" ", ",", "2">>), Some(<<"1", ",", " ", "2">>) }

AuthBasic == Some(<<"B", "a", "s", "i", "c", " ", "d", "T", "p", "w">>)

AuthLowerNoColon == Some(<<"b", "a", "s", "i", "c", " ", "d", "Q", "=", "=">>)

AuthBadPadding == Some(<<"B", "a", "s", "i", "c", " ", "d", "T", "p">>)

AuthNotUtf8 == Some(<<"B", "a", "s", "i", "c", " ", "/", "w", "=", "=">>)

AuthBearer == Some(<<"B", "e", "a", "r", "e", "r", " ", "x">>)

\* The authorization headers: none, "Basic dTpw" (u:p), "basic dQ==" (u),
\* "Basic dTp" (incorrect padding), "Basic /w==" (byte 255), "Bearer x".
AuthHeaders ==
    { None, AuthBasic, AuthLowerNoColon, AuthBadPadding, AuthNotUtf8, AuthBearer }

UserAgents == { None, Some(<<"U", "A">>) }

\* The request contexts: request None; requests without a headers
\* attribute; requests with headers; each without a client attribute, with
\* a client without host and with a peer address.
ProvRequests ==
    { ReqNone }
    \cup { Request(TRUE, FALSE, None, None, None, c, h) :
             c \in BOOLEAN, h \in {None, Some(<<"9">>)} }
    \cup { Request(TRUE, TRUE, x, u, a, c, h) :
             x \in XffHeaders, u \in UserAgents, a \in AuthHeaders,
             c \in BOOLEAN, h \in {None, Some(<<"9">>)} }

\* The short clip under title "b" with every request context.
CallsProv ==
    { [args |-> Args(AudioShort, TitleB, r),
       out |-> Prelude(AudioShort, TitleB, None, None, r, TRUE)] :
        r \in ProvRequests }

---------------------------------------------------------------------------
(* The tables and the unique index                                         *)

\* A row of audio_text (the date column is not modelled).
AudioText(id, title, audio_data, audio_hash, transcript, description, sample_rate) ==
    [id |-> id, title |-> title, audio_data |-> audio_data,
     audio_hash |-> audio_hash, transcript |-> transcript,
     description |-> description, sample_rate |-> sample_rate]

\* A row of submission_meta (the timestamp column is not modelled).
SubmissionMeta(id, audio_id, ip_address, username, user_agent) ==
    [id |-> id, audio_id |-> audio_id, ip_address |-> ip_address,
     username |-> username, user_agent |-> user_agent]

\* The unique index put on the title column.
UniqueKey_Title(row) == row.title

\* The column of the unique index ix_audio_text_audio_hash.
UniqueKey(row) == row.audio_hash

\* A table without the unique index.
UniqueViolation_NoIndex(row, rows) == FALSE

\* Inserting row breaks the unique index against rows.
UniqueViolation(row, rows) == \E r \in rows : UniqueKey(r) = UniqueKey(row)

\* A query whose filter matches no row.
Existing_NoMatch(audio_hash, rows) == {}

\* session.query(AudioText).filter_by(audio_hash=audio_hash): the rows the
\* query's snapshot holds with that hash.
Existing(audio_hash, rows) == { r \in rows : r.audio_hash = audio_hash }

\* An INSERT on an autocommit session.
CommittedAfterInsert_Autocommit(committed, row) == committed \cup {row}

\* The committed rows after an INSERT inside the transaction: the new row
\* stays in the transaction (autocommit=False).
CommittedAfterInsert(committed, row) == committed

\* A COMMIT that loses what the transaction wrote.
CommittedAfterCommit_Lost(committed, written) == committed

\* The committed rows after COMMIT of the rows written in the transaction.
CommittedAfterCommit(committed, written) == committed \cup written

\* An except branch that commits what was written.
CommittedAfterRollback_Keeps(committed, written) == committed \cup written

\* The committed rows after ROLLBACK of the rows written in the transaction.
CommittedAfterRollback(committed, written) == committed

\* ip or 'unknown IP'
IpOrUnknown(ip) == IF Truthy(ip) THEN ip.v ELSE <<"unknown IP">>

---------------------------------------------------------------------------
(* State                                                                   *)

VARIABLES
    audio_text,       \* committed rows of table audio_text
    submission_meta,  \* committed rows of table submission_meta
    audio_id_seq,     \* last value of the audio_text.id sequence
    meta_id_seq,      \* last value of the submission_meta.id sequence
    pc,               \* where each call is
    args,             \* the audio, title and request each call was made with
    earlier,          \* the failed calls over when each call went to the store
    frame,            \* the local variables of each call
    entry_id,         \* entry.id of each call, 0 before the flush
    session,          \* each call's session: "none", "open", "closed"
    tx,               \* its transaction: "none", "active", "committed", "rolledback"
    tx_audio,         \* audio_text rows written in its open transaction
    tx_meta,          \* submission_meta rows written in its open transaction
    ret,              \* what the call returned (or Raised)
    steps,            \* the steps the call has taken, in order
    fault             \* the storage error the call met, "none" if none

vars ==
    << audio_text, submission_meta, audio_id_seq, meta_id_seq,
       pc, args, earlier, frame, entry_id, session, tx, tx_audio, tx_meta, ret, steps,
       fault >>

db == << audio_text, submission_meta, audio_id_seq, meta_id_seq >>

Init ==
    /\ audio_text = {}
    /\ submission_meta = {}
    /\ audio_id_seq = 0
    /\ meta_id_seq = 0
    /\ pc = [p \in Procs |-> "idle"]
    /\ args = [p \in Procs |-> NoArgs]
    /\ earlier = [p \in Procs |-> {}]
    /\ frame = [p \in Procs |-> NoFrame]
    /\ entry_id = [p \in Procs |-> 0]
    /\ session = [p \in Procs |-> "none"]
    /\ tx = [p \in Procs |-> "none"]
    /\ tx_audio = [p \in Procs |-> {}]
    /\ tx_meta = [p \in Procs |-> {}]
    /\ ret = [p \in Procs |-> NoRet]
    /\ steps = [p \in Procs |-> <<>>]
    /\ fault = [p \in Procs |-> "none"]

\* Rows other open transactions have inserted and not yet committed.
OthersWritten(p) == UNION { tx_audio[q] : q \in Procs \ {p} }

---------------------------------------------------------------------------
(* process_audio                                                           *)

\* Lines 68-86 for one call of the argument sets: validation, encoding,
\* size check, fingerprint and provenance touch no shared state.
Enter(p, c) ==
    /\ pc[p] = "idle"
    /\ pc' = [pc EXCEPT ![p] = CASE c.out.exit = "return" -> "returned"
                                 [] c.out.exit = "raise" -> "raised"
                                 [] c.out.exit = "store" -> "L88"]
    /\ args' = [args EXCEPT ![p] = c.args]
    /\ earlier' = [earlier EXCEPT ![p] =
                      { q \in Procs \ {p} :
                          /\ c.out.exit = "store"
                          /\ pc[q] = "returned"
                          /\ ret[q].msg = MsgError }]
    /\ frame' = [frame EXCEPT ![p] = c.out.frame]
    /\ ret' = [ret EXCEPT ![p] = c.out.ret]
    /\ steps' = [steps EXCEPT ![p] = c.out.steps]
    /\ UNCHANGED << db, entry_id, session, tx, tx_audio,
                    tx_meta, fault >>

\* Whether sf.write takes sample rate 0 is left open at each call.
Call(p) == \E c \in CallsZeroOk \cup CallsZeroRefused : Enter(p, c)

\* Line 88: session = SessionLocal()
OpenSession(p) ==
    /\ pc[p] = "L88"
    /\ pc' = [pc EXCEPT ![p] = "L90"]
    /\ session' = [session EXCEPT ![p] = "open"]
    /\ steps' = [steps EXCEPT ![p] = Append(@, "OpenSession")]
    /\ UNCHANGED << db, args, earlier, frame, entry_id, tx, tx_audio, tx_meta,
                    ret, fault >>

\* Lines 90-92: the existence query (it begins the transaction and sees the
\* committed rows) and the duplicate return.
Query(p) ==
    /\ pc[p] = "L90"
    /\ tx' = [tx EXCEPT ![p] = "active"]
    /\ steps' = [steps EXCEPT ![p] = Append(@, "Query")]
    /\ IF Existing(frame[p].audio_hash, audio_text) # {}
       THEN /\ pc' = [pc EXCEPT ![p] = "finally"]
            /\ ret' = [ret EXCEPT ![p] = Ret(MsgDuplicate, <<>>)]
       ELSE /\ pc' = [pc EXCEPT ![p] = "L94"]
            /\ UNCHANGED ret
    /\ UNCHANGED << db, args, earlier, frame, entry_id, session, tx_audio,
                    tx_meta, fault >>

\* A storage error raised at position at, caught at line 116.
Fail(p, at, step, cause) ==
    /\ pc[p] = at
    /\ pc' = [pc EXCEPT ![p] = "except"]
    /\ tx' = [tx EXCEPT ![p] = "active"]
    /\ steps' = [steps EXCEPT ![p] = Append(@, step)]
    /\ fault' = [fault EXCEPT ![p] = cause]
    /\ UNCHANGED << db, args, earlier, frame, entry_id, session, tx_audio,
                    tx_meta, ret >>

\* Line 90 raises.
QueryFail(p) == Fail(p, "L90", "Query", "query")

\* Lines 94-104: session.add(entry); session.flush() sends the INSERT.  The
\* INSERT waits while another open transaction holds an uncommitted row
\* with the same key; it raises IntegrityError when a committed row has the
\* key; otherwise the row is written in the transaction and entry.id is
\* taken from the sequence.
Flush(p) ==
    LET id == audio_id_seq + 1
        entry == AudioText(id, frame[p].title, frame[p].wav_bytes,
                           frame[p].audio_hash, frame[p].transcript,
                           frame[p].description, frame[p].sr)
    IN  /\ pc[p] = "L94"
        /\ ~UniqueViolation(entry, OthersWritten(p))
        /\ steps' = [steps EXCEPT ![p] = Append(@, "InsertSubmission")]
        /\ IF UniqueViolation(entry, audio_text)
           THEN /\ pc' = [pc EXCEPT ![p] = "except"]
                /\ fault' = [fault EXCEPT ![p] = "IntegrityError"]
                /\ UNCHANGED << db, entry_id, tx_audio >>
           ELSE /\ pc' = [pc EXCEPT ![p] = "L106"]
                /\ audio_id_seq' = id
                /\ entry_id' = [entry_id EXCEPT ![p] = id]
                /\ tx_audio' = [tx_audio EXCEPT ![p] = @ \cup {entry}]
                /\ audio_text' = CommittedAfterInsert(audio_text, entry)
                /\ UNCHANGED << submission_meta, meta_id_seq, fault >>
        /\ UNCHANGED << args, earlier, frame, session, tx, tx_meta, ret >>

\* Line 104 raises for another reason than the unique index.
FlushFail(p) == Fail(p, "L94", "InsertSubmission", "insert_submission")

\* Lines 106-114, first half: session.add(meta), and the flush inside
\* session.commit() sends the INSERT of the provenance row.
InsertMeta(p) ==
    LET id == meta_id_seq + 1
        meta == SubmissionMeta(id, entry_id[p], frame[p].ip, frame[p].user,
                               frame[p].ua)
    IN  /\ pc[p] = "L106"
        /\ pc' = [pc EXCEPT ![p] = "L114"]
        /\ meta_id_seq' = id
        /\ tx_meta' = [tx_meta EXCEPT ![p] = @ \cup {meta}]
        /\ submission_meta' = CommittedAfterInsert(submission_meta, meta)
        /\ steps' = [steps EXCEPT ![p] = Append(@, "InsertProvenance")]
        /\ UNCHANGED << audio_text, audio_id_seq, args, earlier, frame,
                        entry_id, session, tx, tx_audio, ret, fault >>

InsertMetaFail(p) == Fail(p, "L106", "InsertProvenance", "insert_provenance")

\* Lines 114-115: COMMIT, then return the Saved message.
Commit(p) ==
    /\ pc[p] = "L114"
    /\ pc' = [pc EXCEPT ![p] = "finally"]
    /\ audio_text' = CommittedAfterCommit(audio_text, tx_audio[p])
    /\ submission_meta' = CommittedAfterCommit(submission_meta, tx_meta[p])
    /\ tx_audio' = [tx_audio EXCEPT ![p] = {}]
    /\ tx_meta' = [tx_meta EXCEPT ![p] = {}]
    /\ tx' = [tx EXCEPT ![p] = "committed"]
    /\ ret' = [ret EXCEPT ![p] = Ret(MsgSaved, IpOrUnknown(frame[p].ip))]
    /\ steps' = [steps EXCEPT ![p] = Append(@, "Commit")]
    /\ UNCHANGED << audio_id_seq, meta_id_seq, args, earlier, frame, entry_id,
                    session, fault >>

CommitFail(p) == Fail(p, "L114", "Commit", "commit")

\* The except branch committing what the transaction wrote.
Rollback_Commits(p) ==
    /\ pc[p] = "except"
    /\ pc' = [pc EXCEPT ![p] = "finally"]
    /\ audio_text' = CommittedAfterCommit(audio_text, tx_audio[p])
    /\ submission_meta' = CommittedAfterCommit(submission_meta, tx_meta[p])
    /\ tx_audio' = [tx_audio EXCEPT ![p] = {}]
    /\ tx_meta' = [tx_meta EXCEPT ![p] = {}]
    /\ tx' = [tx EXCEPT ![p] = "committed"]
    /\ ret' = [ret EXCEPT ![p] = Ret(MsgError, <<fault[p]>>)]
    /\ steps' = [steps EXCEPT ![p] = Append(@, "Rollback")]
    /\ UNCHANGED << audio_id_seq, meta_id_seq, args, earlier, frame, entry_id,
                    session, fault >>

\* Lines 116-118: session.rollback(), then return the error message.
Rollback(p) ==
    /\ pc[p] = "except"
    /\ pc' = [pc EXCEPT ![p] = "finally"]
    /\ audio_text' = CommittedAfterRollback(audio_text, tx_audio[p])
    /\ submission_meta' = CommittedAfterRollback(submission_meta, tx_meta[p])
    /\ tx_audio' = [tx_audio EXCEPT ![p] = {}]
    /\ tx_meta' = [tx_meta EXCEPT ![p] = {}]
    /\ tx' = [tx EXCEPT ![p] = "rolledback"]
    /\ ret' = [ret EXCEPT ![p] = Ret(MsgError, <<fault[p]>>)]
    /\ steps' = [steps EXCEPT ![p] = Append(@, "Rollback")]
    /\ UNCHANGED << audio_id_seq, meta_id_seq, args, earlier, frame, entry_id,
                    session, fault >>

\* A finally block that returns without closing the session.
Close_NoRelease(p) ==
    /\ pc[p] = "finally"
    /\ pc' = [pc EXCEPT ![p] = "returned"]
    /\ steps' = [steps EXCEPT ![p] = Append(@, "Close")]
    /\ UNCHANGED << db, args, earlier, frame, entry_id, session, tx,
                    tx_audio, tx_meta, ret, fault >>

\* Lines 119-120: session.close() releases the session (and ends a
\* transaction still active, as on the duplicate return); the call returns.
Close(p) ==
    /\ pc[p] = "finally"
    /\ pc' = [pc EXCEPT ![p] = "returned"]
    /\ session' = [session EXCEPT ![p] = "closed"]
    /\ tx' = [tx EXCEPT ![p] = IF @ = "active" THEN "rolledback" ELSE @]
    /\ tx_audio' = [tx_audio EXCEPT ![p] = {}]
    /\ tx_meta' = [tx_meta EXCEPT ![p] = {}]
    /\ steps' = [steps EXCEPT ![p] = Append(@, "Close")]
    /\ UNCHANGED << db, args, earlier, frame, entry_id, ret, fault >>

\* The steps of a call when storage does not fail.
Step(p) ==
    \/ Call(p)
    \/ OpenSession(p)
    \/ Query(p)
    \/ Flush(p)
    \/ InsertMeta(p)
    \/ Commit(p)
    \/ Rollback(p)
    \/ Close(p)

\* The storage errors a call can meet.
StorageFault(p) ==
    \/ QueryFail(p)
    \/ FlushFail(p)
    \/ InsertMetaFail(p)
    \/ CommitFail(p)

Next == \E p \in Procs : Step(p) \/ StorageFault(p)

Spec == Init /\ [][Next]_vars

\* The service on a store that raises no error but IntegrityError.
NextNoFault == \E p \in Procs : Step(p)

SpecNoFault == Init /\ [][NextNoFault]_vars

\* The steps of a call that has started: the interpreter and the database
\* server go on with a call whose next statement can run.
Progress(p) ==
    \/ OpenSession(p)
    \/ Query(p)
    \/ Flush(p)
    \/ InsertMeta(p)
    \/ Commit(p)
    \/ Rollback(p)
    \/ Close(p)

\* The service under fair scheduling of the started calls.
SpecFair == Init /\ [][Next]_vars /\ \A p \in Procs : WF_vars(Progress(p))

FirstProc == CHOOSE p \in Procs : \A q \in Procs : p <= q

\* Each caller calls process_audio again after its call is over, while
\* fewer than MaxIds ids were drawn from the audio_text sequence.
MaxIds == 2

Recall(p) ==
    /\ pc[p] \in {"returned", "raised"}
    /\ audio_id_seq < MaxIds
    /\ pc' = [pc EXCEPT ![p] = "idle"]
    /\ args' = [args EXCEPT ![p] = NoArgs]
    /\ earlier' = [q \in Procs |-> IF q = p THEN {} ELSE earlier[q] \ {p}]
    /\ frame' = [frame EXCEPT ![p] = NoFrame]
    /\ entry_id' = [entry_id EXCEPT ![p] = 0]
    /\ session' = [session EXCEPT ![p] = "none"]
    /\ tx' = [tx EXCEPT ![p] = "none"]
    /\ ret' = [ret EXCEPT ![p] = NoRet]
    /\ steps' = [steps EXCEPT ![p] = <<>>]
    /\ fault' = [fault EXCEPT ![p] = "none"]
    /\ UNCHANGED << db, tx_audio, tx_meta >>

\* The first two callers, calling again and again.
Callers == { p \in Procs : \A q \in Procs : q < p => q = FirstProc }

NextRetry == \E p \in Callers : Step(p) \/ StorageFault(p) \/ Recall(p)

SpecRetry == Init /\ [][NextRetry]_vars

\* One call with any of the request contexts, alone on a store that
\* raises no error.
CallProv(p) == \E c \in CallsProv : Enter(p, c)

NextProv ==
    \/ CallProv(FirstProc)
    \/ OpenSession(FirstProc)
    \/ Query(FirstProc)
    \/ Flush(FirstProc)
    \/ InsertMeta(FirstProc)
    \/ Commit(FirstProc)
    \/ Close(FirstProc)

SpecProv == Init /\ [][NextProv]_vars

---------------------------------------------------------------------------
(* Outcomes                                                                *)

\* The outcome a returned message stands for; "none" while the call has
\* not returned and when it raised.
Outcome(r) ==
    CASE r.msg = MsgSaved -> "Accepted"
      [] r.msg = MsgDuplicate -> "DuplicateRejected"
      [] r.msg \in {MsgTitle, MsgAudio, MsgInvalid, MsgTooLarge} -> "ValidationFailed"
      [] r.msg = MsgError -> "StorageFailed"
      [] OTHER -> "none"

Outcomes == {"Accepted", "DuplicateRejected", "ValidationFailed", "StorageFailed"}

\* The call is over.
Ended(p) == pc[p] \in {"returned", "raised"}

\* The call reached the storage attempt.
Attempted(p) == session[p] # "none"

\* A title that is missing, empty or made of whitespace only.
IsBlankTitle(t) == ~t.some \/ \A i \in 1..Len(t.v) : t.v[i] \in Whitespace

\* The committed provenance rows of a submission row.
MetaOf(a) == { m \in submission_meta : m.audio_id = a.id }

---------------------------------------------------------------------------
(* Claims                                                                  *)

\* C1: in every reachable state no two committed audio_text rows have the
\* same audio_hash.
C1_UniqueHash ==
    \A r1, r2 \in audio_text : r1.audio_hash = r2.audio_hash => r1 = r2

\* Two calls raced on the same content: one committed, the insert of the
\* other met the unique index.
C1_Witness ==
    \E p, q \in Procs :
        /\ p # q
        /\ Ended(p) /\ Ended(q)
        /\ frame[p].audio_hash = frame[q].audio_hash
        /\ Outcome(ret[p]) = "Accepted"
        /\ fault[q] = "IntegrityError"

\* C2: the committed store holds exactly one submission_meta row for every
\* audio_text row and no submission_meta row without its audio_text row, in
\* every state, whatever the calls met.
C2_Atomic ==
    /\ \A a \in audio_text : Cardinality(MetaOf(a)) = 1
    /\ \A m \in submission_meta : \E a \in audio_text : a.id = m.audio_id

\* A call failed between the insert of its submission row and the insert
\* of its provenance row, next to a call that committed.
C2_Witness ==
    \E p, q \in Procs :
        /\ Ended(p) /\ fault[p] = "insert_provenance" /\ entry_id[p] > 0
        /\ Ended(q) /\ Outcome(ret[q]) = "Accepted"

\* C3: two calls with valid titles and the same audio, the content not
\* stored before: one returns Accepted, the other DuplicateRejected, and
\* one row has that hash.
C3_RaceYieldsDuplicate ==
    \A p, q \in Procs :
        (/\ p # q
         /\ Ended(p) /\ Ended(q)
         /\ Attempted(p) /\ Attempted(q)
         /\ frame[p].audio_hash = frame[q].audio_hash)
        => /\ {Outcome(ret[p]), Outcome(ret[q])} = {"Accepted", "DuplicateRejected"}
           /\ Cardinality(Existing(frame[p].audio_hash, audio_text)) = 1

\* C4: a call whose title is missing, empty or whitespace-only returns
\* "Title is required." whatever the audio, takes no further step, opens no
\* session and leaves both tables and both sequences as they were.
C4_BlankTitle ==
    [][\A p \in Procs :
        (pc[p] = "idle" /\ pc'[p] # "idle" /\ IsBlankTitle(args'[p].title))
        => /\ pc'[p] = "returned"
           /\ ret'[p] = Ret(MsgTitle, <<>>)
           /\ steps'[p] = <<"Validate">>
           /\ session'[p] = "none"
           /\ db' = db]_vars

\* A call with a whitespace-only title and a valid clip has returned while
\* the store holds a row.
C4_Witness ==
    \E p \in Procs :
        /\ pc[p] = "returned"
        /\ args[p].title = Some(<<" ">>)
        /\ args[p].audio = AudioShort
        /\ ret[p].msg = MsgTitle
        /\ audio_text # {}

\* C5: a call whose existence query finds its hash committed returns the
\* duplicate message, and from the query to its return both tables keep
\* every row and every field.
C5_Duplicate ==
    [][\A p \in Procs :
        /\ (/\ pc[p] = "L90" /\ pc'[p] # "L90"
            /\ \E r \in audio_text : r.audio_hash = frame[p].audio_hash)
           => /\ pc'[p] = "finally"
              /\ ret'[p] = Ret(MsgDuplicate, <<>>)
              /\ db' = db
        /\ (ret[p].msg = MsgDuplicate /\ pc'[p] # pc[p])
           => /\ pc'[p] = "returned"
              /\ ret'[p] = ret[p]
              /\ db' = db]_vars

\* A call returned the duplicate message for a clip stored under another
\* title, transcript, description and request.
C5_Witness ==
    \E p \in Procs : \E r \in audio_text : \E m \in MetaOf(r) :
        /\ pc[p] = "returned"
        /\ ret[p].msg = MsgDuplicate
        /\ r.audio_hash = frame[p].audio_hash
        /\ r.title # frame[p].title
        /\ r.transcript # frame[p].transcript
        /\ r.description # frame[p].description
        /\ m.ip_address # frame[p].ip

\* C6: a call that met a storage error at the query, at the insert of the
\* submission row, at the insert of the provenance row or at the commit
\* has, once it is past line 118, rolled back before closing; it returns
\* the error message and none of its rows is committed.
C6_StorageFailed ==
    \A p \in Procs :
        (fault[p] # "none" /\ pc[p] \in {"finally", "returned"})
        => /\ Outcome(ret[p]) = "StorageFailed"
           /\ tx[p] = "rolledback"
           /\ tx_audio[p] = {} /\ tx_meta[p] = {}
           /\ \E i \in 1..Len(steps[p]) :
                 /\ steps[p][i] = "Rollback"
                 /\ \A j \in 1..i : steps[p][j] # "Close"
           /\ \A a \in audio_text : a.id # entry_id[p]
           /\ \A m \in submission_meta : m.audio_id # entry_id[p]

\* A call whose commit failed has returned.
C6_Witness ==
    \E p \in Procs :
        pc[p] = "returned" /\ fault[p] = "commit" /\ entry_id[p] > 0

\* The audio is absent, empty, non-numeric or has a non-positive rate.
C7_InvalidAudio(a) ==
    \/ a.kind = "None"
    \/ a.size = 0
    \/ a.dtype \notin SfDtypes
    \/ a.sr <= 0

\* C7: every call that is over ended in one of the four outcomes, and in
\* ValidationFailed when its title is valid and its audio is absent, empty,
\* non-numeric or has a non-positive sample rate.
C7_AlwaysAnOutcome ==
    \A p \in Procs :
        Ended(p)
        => /\ Outcome(ret[p]) \in Outcomes
           /\ (~IsBlankTitle(args[p].title) /\ C7_InvalidAudio(args[p].audio))
              => Outcome(ret[p]) = "ValidationFailed"

\* The audio is one the encoder writes.
C8_ValidAudio(a) ==
    /\ a.kind = "ndarray"
    /\ a.size > 0
    /\ a.dtype \in SfDtypes
    /\ a.sr > 0

\* C8: a call with a valid title and valid audio is rejected as too large
\* exactly when its encoding has more than MAX_BYTES bytes, and no
\* committed row has audio_data longer than MAX_BYTES.
C8_SizeBoundary ==
    /\ \A p \in Procs :
        (pc[p] # "idle" /\ ~IsBlankTitle(args[p].title)
                        /\ C8_ValidAudio(args[p].audio))
        => (ret[p].msg = MsgTooLarge
            <=> WavHeaderBytes + BytesPerSample * args[p].audio.size > MAX_BYTES)
    /\ \A r \in audio_text :
        WavHeaderBytes + BytesPerSample * r.audio_data.frames <= MAX_BYTES

\* A clip of exactly MAX_BYTES is committed and the next larger clip was
\* rejected as too large.
C8_Witness ==
    /\ \E r \in audio_text :
        WavHeaderBytes + BytesPerSample * r.audio_data.frames = MAX_BYTES
    /\ \E p \in Procs :
        /\ ret[p].msg = MsgTooLarge
        /\ args[p].audio = AudioOverMax
        /\ ~IsBlankTitle(args[p].title)

\* The order of the steps up to the opening of the session.
C9_Order ==
    <<"Validate", "Normalize", "SizeCheck", "Fingerprint",
      "ExtractProvenance", "OpenSession">>

C9_StorageSteps ==
    {"OpenSession", "Query", "InsertSubmission", "InsertProvenance",
     "Commit", "Rollback", "Close"}

\* C9: the steps of a call follow the order Validate, Normalize, SizeCheck,
\* Fingerprint, ExtractProvenance, OpenSession; a session is open only for
\* a call that passed validation, encoding, the size check and the
\* fingerprint; a call that ends in ValidationFailed took no storage step.
C9_StepOrder ==
    \A p \in Procs :
        /\ \A i \in 1..Len(steps[p]) : i <= Len(C9_Order) => steps[p][i] = C9_Order[i]
        /\ Attempted(p)
           => /\ Len(steps[p]) >= Len(C9_Order)
              /\ ~IsBlankTitle(args[p].title)
              /\ args[p].audio.kind = "ndarray" /\ args[p].audio.size > 0
              /\ WavHeaderBytes + BytesPerSample * frame[p].wav_bytes.frames <= MAX_BYTES
              /\ frame[p].audio_hash
                    = <<"sha256", args[p].audio.sr, args[p].audio.size,
                        frame[p].wav_bytes.pcm>>
        /\ Outcome(ret[p]) = "ValidationFailed"
           => /\ session[p] = "none" /\ tx[p] = "none" /\ entry_id[p] = 0
              /\ \A i \in 1..Len(steps[p]) : steps[p][i] \notin C9_StorageSteps

\* One call was rejected as too large after the size check while another
\* holds an open session.
C9_Witness ==
    \E p, q \in Procs :
        /\ ret[p].msg = MsgTooLarge /\ Len(steps[p]) = 3
        /\ session[q] = "open" /\ pc[q] = "L94"

\* C10: on a store without faults, a call that attempted storage and whose
\* hash no other call has returns Accepted, with its submission row and
\* exactly one provenance row committed.
C10_DistinctNeverConflict ==
    \A p \in Procs :
        (/\ pc[p] = "returned" /\ Attempted(p)
         /\ \A q \in Procs \ {p} : frame[q].audio_hash # frame[p].audio_hash)
        => /\ Outcome(ret[p]) = "Accepted"
           /\ \E a \in audio_text :
                 /\ a.id = entry_id[p]
                 /\ a.audio_hash = frame[p].audio_hash
                 /\ Cardinality(MetaOf(a)) = 1

\* Two interleaved calls with different hashes both returned Accepted.
C10_Witness ==
    \E p, q \in Procs :
        /\ p # q
        /\ pc[p] = "returned" /\ pc[q] = "returned"
        /\ frame[p].audio_hash # frame[q].audio_hash
        /\ Outcome(ret[p]) = "Accepted" /\ Outcome(ret[q]) = "Accepted"
        /\ entry_id[p] < entry_id[q] /\ \E m \in submission_meta :
               m.audio_id = entry_id[p] /\ m.id > 1

\* The username each authorization header of AuthHeaders carries: "u" for
\* the two well-formed basic credentials, None for the others.
C11_Username(auth) ==
    IF auth \in {AuthBasic, AuthLowerNoColon} THEN Some(<<"u">>) ELSE None

\* The provenance row of a finished call.
C11_Stored(p) ==
    { m \in submission_meta :
        \E a \in audio_text : a.id = entry_id[p] /\ MetaOf(a) = {m} }

C12_Resolved(r) ==
    IF r.present /\ r.has_headers /\ r.xff.some /\ r.xff.v # <<>>
    THEN LET i == CHOOSE k \in 1..(Len(r.xff.v) + 1) :
                      /\ k <= Len(r.xff.v) => r.xff.v[k] = ","
                      /\ \A j \in 1..(k - 1) : r.xff.v[j] # ","
             first == SubSeq(r.xff.v, 1, i - 1)
             ink == { j \in 1..Len(first) : first[j] \notin Whitespace }
             lo == CHOOSE j \in ink : \A k \in ink : j <= k
             hi == CHOOSE j \in ink : \A k \in ink : j >= k
         IN  IF ink = {} THEN Some(<<>>) ELSE Some(SubSeq(first, lo, hi))
    ELSE IF r.present /\ r.has_client /\ r.host.some /\ r.host.v # <<>>
    THEN r.host
    ELSE None

C13_Content(a) == <<a.kind, a.dtype, a.size, a.val, a.sr>>

\* C13: two calls that computed a fingerprint from clips with the same
\* samples and the same sample rate computed the same fingerprint, whatever
\* their titles, transcripts, descriptions and request contexts, whatever
\* the store held and in whatever order they ran.
C13_HashOfContentOnly ==
    \A p, q \in Procs :
        (/\ frame[p] # NoFrame
         /\ frame[q] # NoFrame
         /\ C13_Content(args[p].audio) = C13_Content(args[q].audio))
            => frame[p].audio_hash = frame[q].audio_hash

\* A call computed the fingerprint of a clip that an earlier call, with
\* another title, transcript and request context, had already stored.
C13_Witness ==
    \E p, q \in Procs :
        /\ pc[q] = "returned"
        /\ Outcome(ret[q]) = "Accepted"
        /\ frame[p] # NoFrame
        /\ pc[p] = "L90"
        /\ \E a \in audio_text : a.audio_hash = frame[p].audio_hash
        /\ args[p].audio = args[q].audio
        /\ frame[p].title # frame[q].title
        /\ frame[p].transcript # frame[q].transcript
        /\ frame[p].ip # frame[q].ip

\* Call q went to the store after the failed call p was over, met no
\* storage error itself and is over.
C14_Resubmitted(p, q) ==
    /\ p \in earlier[q]
    /\ pc[q] = "returned"
    /\ fault[q] = "none"

\* C14 as stated: a call made after a call that ended in StorageFailed,
\* with the same content and meeting no storage error, is Accepted.
C14_ResubmitAccepted ==
    \A p, q \in Procs :
        (C14_Resubmitted(p, q) /\ frame[q].audio_hash = frame[p].audio_hash)
            => Outcome(ret[q]) = "Accepted"

\* C14 (amended): a call made after a call that ended in StorageFailed,
\* with the same or with other content and meeting no storage error, is
\* Accepted unless a call other than these two has committed its content.
C14_ResubmitAcceptedUnlessStored ==
    \A p, q \in Procs :
        (/\ C14_Resubmitted(p, q)
         /\ \A a \in audio_text :
              a.audio_hash = frame[q].audio_hash
                  => a.id \in {entry_id[p], entry_id[q]})
            => Outcome(ret[q]) = "Accepted"

\* A call failed at COMMIT after its rows were written; a later call with
\* the same content was Accepted.
C14_Witness ==
    \E p, q \in Procs :
        /\ C14_Resubmitted(p, q)
        /\ pc[p] = "returned"
        /\ Outcome(ret[p]) = "StorageFailed"
        /\ fault[p] = "commit"
        /\ frame[q].audio_hash = frame[p].audio_hash
        /\ Outcome(ret[q]) = "Accepted"

\* Call p returns Accepted in this step.
C15_Accepts(p) == ret'[p] # ret[p] /\ Outcome(ret'[p]) = "Accepted"

\* C15: no step removes or changes a committed row; the committed tables
\* change only in a step in which a call returns Accepted, and such a step
\* adds exactly one audio_text row, the call's own, and exactly one
\* submission_meta row, which refers to it; a step in which a call gets any
\* other outcome leaves both tables as they were.
C15_StoreChangesOnlyOnSuccess ==
    [][/\ audio_text \subseteq audio_text'
       /\ submission_meta \subseteq submission_meta'
       /\ (audio_text' # audio_text \/ submission_meta' # submission_meta)
            => \E p \in Procs : C15_Accepts(p)
       /\ \A p \in Procs :
            C15_Accepts(p) =>
                \E a \in audio_text' \ audio_text :
                \E m \in submission_meta' \ submission_meta :
                    /\ audio_text' = audio_text \cup {a}
                    /\ submission_meta' = submission_meta \cup {m}
                    /\ a.id = entry_id[p]
                    /\ a.audio_hash = frame[p].audio_hash
                    /\ m.audio_id = a.id
       /\ \A p \in Procs :
            (ret'[p] # ret[p] /\ Outcome(ret'[p]) # "Accepted")
                => /\ audio_text' = audio_text
                   /\ submission_meta' = submission_meta]_vars

\* One call was Accepted and another, which had written its rows before it
\* failed, ended in StorageFailed: the tables hold the rows of the first
\* call only.
C15_Witness ==
    \E p, q \in Procs :
        /\ pc[p] = "returned" /\ Outcome(ret[p]) = "Accepted"
        /\ pc[q] = "returned" /\ Outcome(ret[q]) = "StorageFailed"
        /\ entry_id[q] # 0
        /\ Cardinality(audio_text) = 1
        /\ Cardinality(submission_meta) = 1
        /\ \A a \in audio_text : a.id = entry_id[p]

\* The calls in progress.
C16_InProgress == { p \in Procs : pc[p] \notin {"idle", "returned", "raised"} }

\* The calls holding an open session.
C16_Open == { p \in Procs : session[p] = "open" }

\* C16: a call that is over holds no open session, no active transaction
\* and no uncommitted row, and if it went to the store (Accepted,
\* DuplicateRejected or StorageFailed) its session was closed; a call that
\* has not started or that raised never opened one; sessions and
\* transactions are open only in calls in progress, so there are never
\* more open sessions than calls in progress and none when no call runs.
C16_SessionsReleased ==
    /\ \A p \in Procs :
        /\ pc[p] \in {"idle", "raised"}
             => session[p] = "none" /\ tx[p] = "none"
        /\ pc[p] = "returned" =>
             /\ session[p] # "open"
             /\ tx[p] # "active"
             /\ tx_audio[p] = {} /\ tx_meta[p] = {}
             /\ Outcome(ret[p]) \in {"Accepted", "DuplicateRejected", "StorageFailed"}
                  => session[p] = "closed"
             /\ Outcome(ret[p]) = "Accepted" => tx[p] = "committed"
             /\ Outcome(ret[p]) \in {"DuplicateRejected", "StorageFailed"}
                  => tx[p] = "rolledback"
        /\ tx[p] = "active" => session[p] = "open"
    /\ C16_Open \subseteq C16_InProgress
    /\ Cardinality(C16_Open) <= Cardinality(C16_InProgress)
    /\ C16_InProgress = {} => \A p \in Procs : session[p] # "open" /\ tx[p] # "active"

\* No call is in progress, every call went to the store, and a
\* DuplicateRejected call and a call of another outcome closed their sessions.
C16_Witness ==
    /\ C16_InProgress = {}
    /\ \A p \in Procs : pc[p] = "returned" /\ session[p] = "closed"
    /\ \E p, q \in Procs :
        /\ Outcome(ret[p]) = "DuplicateRejected"
        /\ Outcome(ret[q]) # "DuplicateRejected"

\* C17: under fair scheduling every call that has started eventually
\* returns one of the four outcomes, whatever the other calls do.
C17_EveryCallReturns ==
    \A p \in Procs :
        (pc[p] # "idle") ~> (pc[p] = "returned" /\ Outcome(ret[p]) \in Outcomes)

\* Under fair scheduling every call that has started is eventually over,
\* by a return or by an exception: no call waits forever.
C17_EveryCallEnds == \A p \in Procs : (pc[p] # "idle") ~> Ended(p)

====
